---- MODULE Spec2Model ----
(***************************************************************************)
(* One miner connection of the stratum relay: the read loop of             *)
(* stratumServer.handleConn, the heartbeat tasks it starts                 *)
(* (callStatusPerInterval), the push callback it registers on the upstream *)
(* node client, minerSession.handleMethod, and the deferred teardown.      *)
(*                                                                         *)
(* Strings and frames are sequences of one-character strings.  A frame is  *)
(* a miniature JSON text: "{" opens an object, the next significant byte   *)
(* is the method marker ("L" login, "S" submit, "K" keepalive), then come  *)
(* quoted strings (the params, in the order login, pass, agent) and "}".   *)
(* A space outside quotes is insignificant whitespace; inside quotes it is *)
(* part of the string.  "[" "]" is valid JSON that is not a request.       *)
(***************************************************************************)
EXTENDS Integers, Sequences, FiniteSets, TLC

\* ---- bounds of the model ------------------------------------------------
\* inputs of one connection: frames decoded from the miner socket, timer
\* ticks taken by the heartbeat tasks and messages pushed by the node
MaxEvents == 3

\* AcceptTCP calls followed
MaxAccepts == 4

\* ---- configuration ------------------------------------------------------
\* conf.Node.Diff
Diff == 1
\* conf.StratumServer.OmitAgentStatus
OmitAgentStatus == << <<"o">> >>

Q  == "\""
WS == " "
NL == "\n"
\* the escape sequence the encoder writes for "<", as one token
EscLT == "\\u003c"

\* ---- strings ------------------------------------------------------------
\* strings.Contains
Contains(s, sub) ==
    \E i \in 0..(Len(s) - Len(sub)) : SubSeq(s, i + 1, i + Len(sub)) = sub

RECURSIVE TrimLeft(_, _)
TrimLeft(s, cut) ==
    IF s /= <<>> /\ Head(s) \in cut THEN TrimLeft(Tail(s), cut) ELSE s

RECURSIVE TrimRight(_, _)
TrimRight(s, cut) ==
    IF s /= <<>> /\ s[Len(s)] \in cut
    THEN TrimRight(SubSeq(s, 1, Len(s) - 1), cut) ELSE s

\* strings.Trim(s, cutset): strips every leading and trailing byte of cutset
Trim(s, cutset) ==
    TrimRight(TrimLeft(s, {cutset[i] : i \in 1..Len(cutset)}),
              {cutset[i] : i \in 1..Len(cutset)})

\* strings.TrimSpace
TrimSpace(s) == TrimRight(TrimLeft(s, {WS}), {WS})

\* ---- the JSON codec -------------------------------------------------------
\* compact(): what json.Encoder does with the bytes a RawMessage marshals to:
\* whitespace outside strings is dropped, "<" is escaped
RECURSIVE Compact(_, _)
Compact(b, inStr) ==
    IF b = <<>> THEN <<>>
    ELSE LET c == Head(b) IN
         IF c = Q THEN <<c>> \o Compact(Tail(b), ~inStr)
         ELSE IF c = WS /\ ~inStr THEN Compact(Tail(b), inStr)
         ELSE IF c = "<" THEN <<EscLT>> \o Compact(Tail(b), inStr)
         ELSE <<c>> \o Compact(Tail(b), inStr)

\* json.Encoder.Encode(json.RawMessage): the compacted value and a newline
Encode(raw) == Compact(raw, FALSE) \o <<NL>>

\* the significant bytes outside strings, with each string collapsed to Q
RECURSIVE Skeleton(_, _)
Skeleton(b, inStr) ==
    IF b = <<>> THEN <<>>
    ELSE LET c == Head(b) IN
         IF c = Q THEN (IF inStr THEN <<>> ELSE <<Q>>) \o Skeleton(Tail(b), ~inStr)
         ELSE IF inStr \/ c = WS \/ c = NL THEN Skeleton(Tail(b), inStr)
         ELSE <<c>> \o Skeleton(Tail(b), inStr)

\* the decoded contents of the quoted strings of a JSON text, in order
RECURSIVE Strings(_, _, _)
Strings(b, inStr, cur) ==
    IF b = <<>> THEN <<>>
    ELSE LET c == Head(b) IN
         IF c = Q THEN (IF inStr THEN <<cur>> ELSE <<>>) \o Strings(Tail(b), ~inStr, <<>>)
         ELSE IF inStr
              THEN Strings(Tail(b), inStr, cur \o <<IF c = EscLT THEN "<" ELSE c>>)
              ELSE Strings(Tail(b), inStr, cur)

\* json.Unmarshal(jsonRaw, &clientReq) fails: the value is not an object
UnmarshalFails(raw) == Skeleton(raw, FALSE) = <<>> \/ Head(Skeleton(raw, FALSE)) /= "{"

\* clientReq.Method
Method(raw) ==
    LET sk == Skeleton(raw, FALSE) IN
    IF Len(sk) >= 2 /\ sk[2] = "L" THEN "login"
    ELSE IF Len(sk) >= 2 /\ sk[2] = "S" THEN "submit"
    ELSE IF Len(sk) >= 2 /\ sk[2] = "K" THEN "keepalive"
    ELSE ""

\* clientReq.Params[...].(string): a missing param asserts to ""
Param(raw, i) ==
    LET ss == Strings(raw, FALSE, <<>>) IN IF i <= Len(ss) THEN ss[i] ELSE <<>>

\* the request a JSON text decodes to
Decoded(b) ==
    [ok |-> ~UnmarshalFails(b), method |-> Method(b), strings |-> Strings(b, FALSE, <<>>)]

Str(s) == <<Q>> \o s \o <<Q>>

LoginFrame(l, p, a) == <<"{", "L">> \o Str(l) \o Str(p) \o Str(a) \o <<"}">>

\* ---- inputs ---------------------------------------------------------------
LoginFrames ==
    { LoginFrame(<<WS, "a">>, <<"p">>, <<"g">>),
      LoginFrame(<<"b">>, <<"p", WS>>, <<"o", "g">>),
      <<"{", WS, "L", "}">> }

OtherFrames ==
    { <<"{", "S", "}">>,
      <<"{", WS, "K", Q, "<", WS, Q, "}">> }

MalformedFrames == { <<"[", "]">> }

\* minerLoginStatusCode
Verdicts == {"correctPassword", "wrongPassword", "noPassword"}

\* rand.Int63(), as decimal digits
Rands == { <<"7">> }

\* the detail strings of submit results
DetailBlock == <<"b", "l", "o", "c", "k", WS, "-", WS, "k", "7">>
DetailOk    == <<"o", "k">>

\* stratumResponse values decoded from pushed messages; result is a string
\* (kind "str"), a JSON object (kind "map") or absent (kind "nil")
Responses ==
    { [method |-> "status", error |-> FALSE, kind |-> "map", detail |-> <<>>],
      [method |-> "submit", error |-> TRUE,  kind |-> "str", detail |-> DetailBlock],
      [method |-> "submit", error |-> FALSE, kind |-> "str", detail |-> DetailBlock],
      [method |-> "submit", error |-> FALSE, kind |-> "str", detail |-> DetailOk],
      [method |-> "submit", error |-> FALSE, kind |-> "nil", detail |-> <<>>],
      \* any other method, or the zero value left by a message that does not
      \* unmarshal
      [method |-> "",       error |-> FALSE, kind |-> "nil", detail |-> <<>>] }

NoReq == [login |-> <<>>, agent |-> <<>>, raw |-> <<>>, idx |-> 0, verdict |-> "none"]
NoMsg ==
    [id |-> 0, res |-> [method |-> "", error |-> FALSE, kind |-> "nil", detail |-> <<>>],
     at |-> "fwd", login |-> <<>>]

VARIABLES
    pc,         \* position of handleConn
    session,    \* minerSession: login, agent, difficulty
    req,        \* locals of the login case: login, agent, jsonRaw
    minerIn,    \* the frames decoded from conn, in order
    hbRunning,  \* callStatusPerInterval goroutines that have not returned
    ticks,      \* timer ticks taken so far
    ctxDone,    \* ctx.Done() is closed
    ncOpen,     \* the upstream connection nc.c is open
    connOpen,   \* the miner socket conn is open
    upstream,   \* what has been written on nc.c, in order
    minerOut,   \* what has been written on conn, in order
    dbCalls,    \* calls made on the database, in order
    errLog,     \* log.Error calls of the heartbeat and the callback, each with
                \* whether handleConn had finished its teardown
    cb,         \* the callback invocation in flight
    nPush,      \* messages pushed so far
    ln          \* initStratumServer: what AcceptTCP returned so far and the
                \* handleConn goroutines started

vars == <<pc, session, req, minerIn, hbRunning, ticks, ctxDone, ncOpen, connOpen,
          upstream, minerOut, dbCalls, errLog, cb, nPush, ln>>

\* frames decoded so far
nRead == Len(minerIn)

\* the inputs taken so far
Events == nRead + ticks + nPush

\* ---- minerSession ---------------------------------------------------------
\* ms.hasNotLoggedIn()
hasNotLoggedIn(ms) == ms.login = <<>>

DbCall(op, ms, arg, by) ==
    [op |-> op, login |-> ms.login, agent |-> ms.agent, diff |-> ms.difficulty,
     arg |-> arg, by |-> by]

\* the database calls handleMethod makes once past its checks (lines 55 and
\* 66-70), ms being the session fields its arguments read
handleMethodCalls(ms, res, by) ==
    IF res.method = "status"
    THEN <<DbCall("setMinerAgentStatus", ms, <<>>, by)>>
    ELSE <<DbCall("putShare", ms, <<>>, by)>>
         \o (IF Contains(res.detail, <<"b", "l", "o", "c", "k">>)
             THEN <<[op |-> "putBlockHash", login |-> <<>>, agent |-> <<>>,
                     diff |-> 0,
                     arg |-> Trim(res.detail, <<"b", "l", "o", "c", "k", WS, "-", WS>>),
                     by |-> by]>>
             ELSE <<>>)

\* handleMethod without the res.Error check of the submit case
handleMethod_NoErrCheck(ms, res, by) ==
    IF res.method = "status"
    THEN IF ms.login = <<>> THEN <<>>
         ELSE handleMethodCalls(ms, res, by)
    ELSE IF res.method = "submit"
    THEN IF res.kind = "str"
         THEN handleMethodCalls(ms, res, by)
         ELSE <<>>
    ELSE <<>>

\* ms.handleMethod(res, db) run against one reading of the session: the
\* database calls it makes, in order
handleMethod(ms, res, by) ==
    IF res.method = "status"
    THEN IF ms.login = <<>> THEN <<>>
         ELSE handleMethodCalls(ms, res, by)
    ELSE IF res.method = "submit"
    THEN IF res.error THEN <<>>
         ELSE IF res.kind = "str"
         THEN handleMethodCalls(ms, res, by)
         ELSE <<>>
    ELSE <<>>

\* ---- writes on the two sockets ---------------------------------------------
Relay(idx, raw, verdict, ms) ==
    [src |-> "relay", idx |-> idx, raw |-> raw, bytes |-> Encode(raw),
     verdict |-> verdict, auth |-> ~hasNotLoggedIn(ms)]

\* statusReq, encoded
StatusBytes == <<"{", "T", "}", NL>>

StatusEntry ==
    [src |-> "status", idx |-> 0, raw |-> <<>>, bytes |-> StatusBytes,
     verdict |-> "none", auth |-> FALSE]

\* a write that overtakes what was written before
Send_Front(link, entry) == <<entry>> \o link

\* a Write on nc.c: the bytes follow everything written before
Send(link, entry) == Append(link, entry)


\* the accept loop before its first AcceptTCP, and after the accept of the
\* socket whose handler the connection variables follow
NoAccept == [state |-> "accepting", results |-> <<>>, handlers |-> <<>>]
OneAccept ==
    [state |-> "accepting", results |-> <<"sock">>,
     handlers |-> <<[conn |-> "sock", session |-> TRUE, nc |-> TRUE]>>]

\* handleConn at its first Decode, with the session, the upstream client and
\* the push handler of lines 103-124 set up
ConnInit ==
    /\ pc = "read"
    /\ session = [login |-> <<>>, agent |-> <<>>, difficulty |-> Diff]
    /\ req = NoReq
    /\ minerIn = <<>>
    /\ hbRunning = 0
    /\ ticks = 0
    /\ ctxDone = FALSE
    /\ ncOpen = TRUE
    /\ connOpen = TRUE
    /\ upstream = <<>>
    /\ minerOut = <<>>
    /\ dbCalls = <<>>
    /\ errLog = <<>>
    /\ cb = NoMsg
    /\ nPush = 0

Init == ConnInit /\ ln = OneAccept

\* ---- handleConn: the read loop ---------------------------------------------
\* dec.Decode fails with ECONNRESET: return
ReadReset ==
    /\ pc = "read"
    /\ pc' = "closeNc"
    /\ UNCHANGED <<ln, session, req, minerIn, hbRunning, ticks, ctxDone, ncOpen, connOpen,
                   upstream, minerOut, dbCalls, errLog, cb, nPush>>

\* dec.Decode fails with any other error (another *net.OpError, or io.EOF or a
\* syntax error, which are logged): control leaves the error branch for the
\* length check with jsonRaw still empty
ReadError ==
    /\ pc = "read"
    /\ pc' = "empty"
    /\ UNCHANGED <<ln, session, req, minerIn, hbRunning, ticks, ctxDone, ncOpen, connOpen,
                   upstream, minerOut, dbCalls, errLog, cb, nPush>>

\* len(jsonRaw) == 0 after a failed Decode: return
EmptyReturn ==
    /\ pc = "empty"
    /\ pc' = "closeNc"
    /\ UNCHANGED <<ln, session, req, minerIn, hbRunning, ticks, ctxDone, ncOpen, connOpen,
                   upstream, minerOut, dbCalls, errLog, cb, nPush>>

\* json.Unmarshal rejects the frame and the loop returns instead of continuing
ReadMalformed_Return ==
    /\ pc = "read"
    /\ Events < MaxEvents
    /\ \E raw \in MalformedFrames :
          /\ UnmarshalFails(raw)
          /\ minerIn' = Append(minerIn, raw)
    /\ pc' = "closeNc"
    /\ UNCHANGED <<ln, session, req, hbRunning, ticks, ctxDone, ncOpen, connOpen,
                   upstream, minerOut, dbCalls, errLog, cb, nPush>>

\* a frame that json.Unmarshal rejects: continue
ReadMalformed ==
    /\ pc = "read"
    /\ Events < MaxEvents
    /\ \E raw \in MalformedFrames :
          /\ UnmarshalFails(raw)
          /\ minerIn' = Append(minerIn, raw)
    /\ UNCHANGED <<ln, pc, session, req, hbRunning, ticks, ctxDone, ncOpen, connOpen,
                   upstream, minerOut, dbCalls, errLog, cb, nPush>>

\* the agent the login case works with
AgentOf(raw, rnd) ==
    IF TrimSpace(Param(raw, 3)) = <<>>
    THEN <<"N">> \o rnd
    ELSE TrimSpace(Param(raw, 3))

\* the wrongPassword case without login = ""
LoginOf_NoClear(raw, verdict) == TrimSpace(Param(raw, 1))

\* the login local after the verifyMiner switch
LoginOf(raw, verdict) ==
    IF verdict = "wrongPassword" THEN <<>> ELSE TrimSpace(Param(raw, 1))

\* the error reply of the wrongPassword case
ErrorReply(idx) == [kind |-> "error", id |-> idx]

\* registerMiner called in the correctPassword case too
registerOnVerdict_NotWrong(verdict) == verdict /= "wrongPassword"

\* the verifyMiner switch: the case that calls registerMiner
registerOnVerdict(verdict) == verdict = "noPassword"

\* case "login", up to the end of the verifyMiner switch
LoginVerify ==
    /\ pc = "read"
    /\ Events < MaxEvents
    /\ \E raw \in LoginFrames, verdict \in Verdicts, rnd \in Rands :
          /\ ~UnmarshalFails(raw)
          /\ Method(raw) = "login"
          /\ req' = [login |-> LoginOf(raw, verdict), agent |-> AgentOf(raw, rnd),
                     raw |-> raw, idx |-> nRead + 1, verdict |-> verdict]
          /\ minerOut' = IF verdict = "wrongPassword" /\ connOpen
                         THEN Append(minerOut, ErrorReply(nRead + 1))
                         ELSE minerOut
          /\ minerIn' = Append(minerIn, raw)
          /\ dbCalls' = IF registerOnVerdict(verdict)
                        THEN Append(dbCalls,
                                    [op |-> "registerMiner",
                                     login |-> TrimSpace(Param(raw, 1)),
                                     agent |-> <<>>, diff |-> 0,
                                     arg |-> TrimSpace(Param(raw, 2)),
                                     by |-> nRead + 1])
                        ELSE dbCalls
    /\ pc' = "commit"
    /\ UNCHANGED <<ln, session, hbRunning, ticks, ctxDone, ncOpen, connOpen, upstream,
                   errLog, cb, nPush>>

\* session.login = login
LoginCommit ==
    /\ pc = "commit"
    /\ session' = [session EXCEPT !.login = req.login]
    /\ pc' = "finish"
    /\ UNCHANGED <<ln, req, minerIn, hbRunning, ticks, ctxDone, ncOpen, connOpen, upstream,
                   minerOut, dbCalls, errLog, cb, nPush>>

\* the loop over conf.StratumServer.OmitAgentStatus
requireCallStatus(agent) ==
    ~ \E i \in 1..Len(OmitAgentStatus) : Contains(agent, OmitAgentStatus[i])

\* go callStatusPerInterval(ctx, nc)
StartHeartbeat(n, agent) == IF requireCallStatus(agent) THEN n + 1 ELSE n

\* what the login case writes on nc.enc
LoginRelay(link, r, ms) == Send(link, Relay(r.idx, r.raw, r.verdict, ms))

\* session.agent = agent, the heartbeat, and the relay of the login frame
LoginFinish ==
    /\ pc = "finish"
    /\ session' = [session EXCEPT !.agent = req.agent]
    /\ hbRunning' = StartHeartbeat(hbRunning, req.agent)
    /\ upstream' = IF ncOpen THEN LoginRelay(upstream, req, session') ELSE upstream
    /\ req' = NoReq
    /\ pc' = "read"
    /\ UNCHANGED <<ln, minerIn, ticks, ctxDone, ncOpen, connOpen, minerOut, dbCalls,
                   errLog, cb, nPush>>

\* a default case that drops the frame of a session that has not logged in
DefaultRelay_DropUnauth(link, idx, raw, ms) ==
    IF hasNotLoggedIn(ms) THEN link ELSE Send(link, Relay(idx, raw, "none", ms))

\* what the default case writes on nc.enc
DefaultRelay(link, idx, raw, ms) == Send(link, Relay(idx, raw, "none", ms))

\* default: warn when not logged in, relay the frame
ReadOther ==
    /\ pc = "read"
    /\ Events < MaxEvents
    /\ \E raw \in OtherFrames :
          /\ ~UnmarshalFails(raw)
          /\ Method(raw) /= "login"
          /\ upstream' = IF ncOpen THEN DefaultRelay(upstream, nRead + 1, raw, session)
                         ELSE upstream
          /\ minerIn' = Append(minerIn, raw)
    /\ UNCHANGED <<ln, pc, session, req, hbRunning, ticks, ctxDone, ncOpen, connOpen,
                   minerOut, dbCalls, errLog, cb, nPush>>

\* ---- handleConn: the deferred calls, last registered first -----------------
\* defer nc.close()
DeferNcClose ==
    /\ pc = "closeNc"
    /\ ncOpen' = FALSE
    /\ pc' = "cancel"
    /\ UNCHANGED <<ln, session, req, minerIn, hbRunning, ticks, ctxDone, connOpen,
                   upstream, minerOut, dbCalls, errLog, cb, nPush>>

\* handleConn without defer cancel()
DeferCancel_NoCancel ==
    /\ pc = "cancel"
    /\ pc' = "closeConn"
    /\ UNCHANGED <<ln, session, req, minerIn, hbRunning, ticks, ctxDone, ncOpen, connOpen,
                   upstream, minerOut, dbCalls, errLog, cb, nPush>>

\* defer cancel()
DeferCancel ==
    /\ pc = "cancel"
    /\ ctxDone' = TRUE
    /\ pc' = "closeConn"
    /\ UNCHANGED <<ln, session, req, minerIn, hbRunning, ticks, ncOpen, connOpen,
                   upstream, minerOut, dbCalls, errLog, cb, nPush>>

\* handleConn returning without closing conn
DeferConnClose_NoClose ==
    /\ pc = "closeConn"
    /\ pc' = "done"
    /\ UNCHANGED <<ln, session, req, minerIn, hbRunning, ticks, ctxDone, ncOpen, connOpen,
                   upstream, minerOut, dbCalls, errLog, cb, nPush>>

\* defer conn.Close()
DeferConnClose ==
    /\ pc = "closeConn"
    /\ connOpen' = FALSE
    /\ pc' = "done"
    /\ UNCHANGED <<ln, session, req, minerIn, hbRunning, ticks, ctxDone, ncOpen,
                   upstream, minerOut, dbCalls, errLog, cb, nPush>>

\* ---- callStatusPerInterval -------------------------------------------------
\* case <-ch: the tick is taken whenever it is ready, also when ctx.Done() is
\* ready too (select picks among the ready cases at random)
HbTick ==
    /\ hbRunning > 0
    /\ Events < MaxEvents
    /\ ticks' = ticks + 1
    /\ IF ncOpen
       THEN upstream' = Send(upstream, StatusEntry) /\ errLog' = errLog
       ELSE upstream' = upstream /\ errLog' = Append(errLog, [src |-> "hb", late |-> pc = "done"])
    /\ UNCHANGED <<ln, pc, session, req, minerIn, hbRunning, ctxDone, ncOpen, connOpen,
                   minerOut, dbCalls, cb, nPush>>

\* case <-ctx.Done() with a break that leaves the select, not the loop
HbExit_Break ==
    /\ hbRunning > 0
    /\ ctxDone
    /\ UNCHANGED vars

\* case <-ctx.Done(): return
HbExit ==
    /\ hbRunning > 0
    /\ ctxDone
    /\ hbRunning' = hbRunning - 1
    /\ UNCHANGED <<ln, pc, session, req, minerIn, ticks, ctxDone, ncOpen, connOpen,
                   upstream, minerOut, dbCalls, errLog, cb, nPush>>

\* ---- the push callback -----------------------------------------------------
\* nc.registerHandler: the node pushes a message and the callback is invoked
PushDeliver ==
    /\ cb = NoMsg
    /\ Events < MaxEvents
    /\ ~ctxDone
    /\ \E res \in Responses :
          cb' = [id |-> nPush + 1, res |-> res, at |-> "fwd", login |-> <<>>]
    /\ nPush' = nPush + 1
    /\ UNCHANGED <<ln, pc, session, req, minerIn, hbRunning, ticks, ctxDone, ncOpen,
                   connOpen, upstream, minerOut, dbCalls, errLog>>

\* the callback returning when the write to the miner fails
CallbackRun_ReturnOnWriteError ==
    /\ cb /= NoMsg
    /\ cb.at = "fwd"
    /\ IF connOpen
       THEN /\ minerOut' = Append(minerOut, [kind |-> "push", id |-> cb.id])
            /\ errLog' = errLog
            /\ cb' = IF handleMethod(session, cb.res, cb.id) = <<>>
                     THEN NoMsg
                     ELSE [cb EXCEPT !.at = "login"]
       ELSE /\ minerOut' = minerOut
            /\ errLog' = Append(errLog, [src |-> "cb", late |-> pc = "done"])
            /\ cb' = NoMsg
    /\ UNCHANGED <<ln, pc, session, req, minerIn, hbRunning, ticks, ctxDone, ncOpen,
                   connOpen, upstream, dbCalls, nPush>>

\* the callback: forward to the miner, unmarshal, then session.handleMethod up
\* to the point where it has decided to call the database (the ms.login
\* check of the status case, the res.Error and type checks of the submit case)
CallbackRun ==
    /\ cb /= NoMsg
    /\ cb.at = "fwd"
    /\ IF connOpen
       THEN minerOut' = Append(minerOut, [kind |-> "push", id |-> cb.id])
            /\ errLog' = errLog
       ELSE minerOut' = minerOut
            /\ errLog' = Append(errLog, [src |-> "cb", late |-> pc = "done"])
    /\ cb' = IF handleMethod(session, cb.res, cb.id) = <<>>
             THEN NoMsg
             ELSE [cb EXCEPT !.at = "login"]
    /\ UNCHANGED <<ln, pc, session, req, minerIn, hbRunning, ticks, ctxDone, ncOpen,
                   connOpen, upstream, dbCalls, nPush>>

\* handleMethod evaluating the first argument of its database call: ms.login
\* is read again, without synchronisation with handleConn
CallbackLogin ==
    /\ cb.at = "login"
    /\ cb' = [cb EXCEPT !.at = "agent", !.login = session.login]
    /\ UNCHANGED <<ln, pc, session, req, minerIn, hbRunning, ticks, ctxDone, ncOpen,
                   connOpen, upstream, minerOut, dbCalls, errLog, nPush>>

\* handleMethod reading ms.agent and ms.difficulty and calling the database
CallbackCall ==
    /\ cb.at = "agent"
    /\ dbCalls' = dbCalls
                  \o handleMethodCalls([session EXCEPT !.login = cb.login], cb.res, cb.id)
    /\ cb' = NoMsg
    /\ UNCHANGED <<ln, pc, session, req, minerIn, hbRunning, ticks, ctxDone, ncOpen,
                   connOpen, upstream, minerOut, errLog, nPush>>

Next ==
    \/ ReadReset
    \/ ReadError
    \/ EmptyReturn
    \/ ReadMalformed
    \/ LoginVerify
    \/ LoginCommit
    \/ LoginFinish
    \/ ReadOther
    \/ DeferNcClose
    \/ DeferCancel
    \/ DeferConnClose
    \/ HbTick
    \/ HbExit
    \/ PushDeliver
    \/ CallbackRun
    \/ CallbackLogin
    \/ CallbackCall

Spec == Init /\ [][Next]_vars

\* the scheduling the Go runtime guarantees: the handler's goroutine runs its
\* return and its deferred calls, none of which waits for another goroutine,
\* and a heartbeat goroutine whose ctx.Done() case stays ready gets to take it
Fairness ==
    /\ WF_vars(EmptyReturn)
    /\ WF_vars(DeferNcClose)
    /\ WF_vars(DeferCancel)
    /\ WF_vars(DeferConnClose)
    /\ WF_vars(HbExit)

\* handleConn back at its Decode after it has read and dropped a first,
\* malformed frame (ReadMalformed from Init)
LiveInit ==
    /\ pc = "read"
    /\ session = [login |-> <<>>, agent |-> <<>>, difficulty |-> Diff]
    /\ req = NoReq
    /\ minerIn \in {<<raw>> : raw \in MalformedFrames}
    /\ hbRunning = 0
    /\ ticks = 0
    /\ ctxDone = FALSE
    /\ ncOpen = TRUE
    /\ connOpen = TRUE
    /\ upstream = <<>>
    /\ minerOut = <<>>
    /\ dbCalls = <<>>
    /\ errLog = <<>>
    /\ cb = NoMsg
    /\ nPush = 0
    /\ ln = OneAccept

LiveSpec == LiveInit /\ [][Next]_vars /\ Fairness

\* ---- initStratumServer: the accept loop ------------------------------------
connVars == <<pc, session, req, minerIn, hbRunning, ticks, ctxDone, ncOpen, connOpen,
              upstream, minerOut, dbCalls, errLog, cb, nPush>>

\* one iteration of the loop: AcceptTCP returns a socket or an error, the
\* error is logged, and go ss.handleConn(conn) runs in both cases
AcceptTCP ==
    /\ ln.state = "accepting"
    /\ Len(ln.results) < MaxAccepts
    /\ \E r \in {"sock", "err"} :
          ln' = [ln EXCEPT !.results = Append(@, r),
                           !.handlers = Append(@, [conn |-> IF r = "sock" THEN "sock" ELSE "nil",
                                                   session |-> FALSE, nc |-> FALSE])]
    /\ UNCHANGED connVars

\* handleConn on an accepted socket: the session and the upstream client
HandleConnStart ==
    /\ ln.state = "accepting"
    /\ \E i \in 1..Len(ln.handlers) :
          /\ ln.handlers[i].conn = "sock"
          /\ ~ln.handlers[i].session
          /\ ln' = [ln EXCEPT !.handlers[i].session = TRUE, !.handlers[i].nc = TRUE]
    /\ UNCHANGED connVars

\* handleConn on the nil *net.TCPConn of a failed accept: conn.RemoteAddr()
\* at line 102 either returns nil, and the handler sets up its session and its
\* upstream client like any other, ...
HandleConnNil ==
    /\ ln.state = "accepting"
    /\ \E i \in 1..Len(ln.handlers) :
          /\ ln.handlers[i].conn = "nil"
          /\ ~ln.handlers[i].session
          /\ ln' = [ln EXCEPT !.handlers[i].session = TRUE, !.handlers[i].nc = TRUE]
    /\ UNCHANGED connVars

\* ... or dereferences the nil pointer: the panic is not recovered and ends
\* the process, the accept loop with it
HandleConnNilPanic ==
    /\ ln.state = "accepting"
    /\ \E i \in 1..Len(ln.handlers) :
          /\ ln.handlers[i].conn = "nil"
          /\ ~ln.handlers[i].session
    /\ ln' = [ln EXCEPT !.state = "crashed"]
    /\ UNCHANGED connVars

AcceptInit == ConnInit /\ ln = NoAccept

AcceptNext ==
    \/ AcceptTCP
    \/ HandleConnStart
    \/ HandleConnNil
    \/ HandleConnNilPanic

AcceptSpec == AcceptInit /\ [][AcceptNext]_vars


\* ---- properties ------------------------------------------------------------
\* every frame the miner may send
Frames == LoginFrames \cup OtherFrames \cup MalformedFrames

\* Decoded, tabulated over the frames and their encodings
DecodedOf == [b \in Frames \cup {Encode(f) : f \in Frames} |-> Decoded(b)]

\* the trimmed login and pass params of each frame
TrimmedOf ==
    [f \in Frames |-> [login |-> TrimSpace(Param(f, 1)), pass |-> TrimSpace(Param(f, 2))]]

\* the positions of a sequence whose element satisfies P
Where(seq, P(_)) == {i \in 1..Len(seq) : P(seq[i])}

IsStatus(e) == e.src = "status"
IsRelay(e) == e.src = "relay"
IsRegister(c) == c.op = "registerMiner"

\* the calls appended to the database log by a step
NewCalls == SubSeq(dbCalls', Len(dbCalls) + 1, Len(dbCalls'))

\* C1: a login frame whose verifyMiner verdict is wrongPassword is never
\* relayed upstream: no entry written on the upstream link comes from it.
C1_WrongLoginNotRelayed ==
    \A i \in 1..Len(upstream) : upstream[i].verdict /= "wrongPassword"

\* C2: once session.login is non-empty, no later step changes or clears it.
C2_LoginSetOnce ==
    [][session.login /= <<>> => session.login' = session.login]_vars

\* C3: at most one callStatusPerInterval task is active at any time.
C3_AtMostOneHeartbeat == hbRunning <= 1

\* C4: while the session's agent contains a configured omit-substring, no
\* heartbeat status request is written on the upstream link.
C4_NoStatusWhileOmitted ==
    [][~requireCallStatus(session.agent)
         => Cardinality(Where(upstream', IsStatus)) = Cardinality(Where(upstream, IsStatus))]_vars

\* C5: once handleConn has returned and run its three deferred calls, nothing
\* more is written on the upstream link or on the miner socket.
C5_NothingSentAfterTeardown ==
    [][pc = "done" => upstream' = upstream /\ minerOut' = minerOut]_vars

\* C5 witness: after teardown a heartbeat tick and a callback both tried to
\* write, and both writes failed.
C5_Witness ==
    /\ pc = "done"
    /\ \E i \in 1..Len(errLog) : errLog[i] = [src |-> "hb", late |-> TRUE]
    /\ \E i \in 1..Len(errLog) : errLog[i] = [src |-> "cb", late |-> TRUE]

\* the registerMiner calls made for the login request read as frame idx
RegisterCalls(idx) ==
    {i \in 1..Len(dbCalls) : IsRegister(dbCalls[i]) /\ dbCalls[i].by = idx}

RegisteredPerVerdict(idx, raw, verdict) ==
    IF verdict = "noPassword"
    THEN /\ Cardinality(RegisterCalls(idx)) = 1
         /\ \A i \in RegisterCalls(idx) :
               /\ dbCalls[i].login = TrimmedOf[raw].login
               /\ dbCalls[i].arg = TrimmedOf[raw].pass
    ELSE RegisterCalls(idx) = {}

\* C6: for a login request with verdict noPassword, registerMiner(login, pass,
\* "") has been called exactly once when the login is about to be committed,
\* and it is not called again; with any other verdict it is never called.
C6_RegisterOnceBeforeCommit ==
    /\ pc \in {"commit", "finish"} => RegisteredPerVerdict(req.idx, req.raw, req.verdict)
    /\ \A i \in 1..Len(upstream) :
          IsRelay(upstream[i]) /\ upstream[i].verdict /= "none"
             => RegisteredPerVerdict(upstream[i].idx, upstream[i].raw, upstream[i].verdict)
    /\ \A i \in 1..Len(dbCalls) :
          IsRegister(dbCalls[i]) => DecodedOf[minerIn[dbCalls[i].by]].method = "login"

\* C6 witness: a noPassword login has registered and is not yet committed.
C6_Witness ==
    /\ pc = "commit"
    /\ req.verdict = "noPassword"
    /\ req.login /= <<>>
    /\ session.login = <<>>
    /\ Cardinality(RegisterCalls(req.idx)) = 1

CountOp(calls, op) == Cardinality({i \in 1..Len(calls) : calls[i].op = op})

\* C7: when the callback classifies a pushed submit message: with error absent
\* and a string result containing "block" it makes exactly one putShare and one
\* putBlockHash call; with error present it makes neither.
C7_SubmitRecording ==
    [][cb /= NoMsg /\ cb' = NoMsg /\ cb.res.method = "submit"
         => /\ (~cb.res.error /\ cb.res.kind = "str"
                   /\ Contains(cb.res.detail, <<"b", "l", "o", "c", "k">>))
                => /\ CountOp(NewCalls, "putShare") = 1
                   /\ CountOp(NewCalls, "putBlockHash") = 1
            /\ cb.res.error
                => /\ CountOp(NewCalls, "putShare") = 0
                   /\ CountOp(NewCalls, "putBlockHash") = 0]_vars

\* C7 witness: a pushed submit with a block result has been classified, and
\* one with an error has been forwarded without any recording.
C7_Witness ==
    /\ \E i, j \in 1..Len(dbCalls) :
          /\ dbCalls[i].op = "putShare" /\ dbCalls[j].op = "putBlockHash"
          /\ dbCalls[i].by = dbCalls[j].by
    /\ \E k \in 1..Len(minerOut) :
          /\ minerOut[k].kind = "push"
          /\ \A i \in 1..Len(dbCalls) : dbCalls[i].by /= minerOut[k].id

\* the frames read so far that are well-formed requests other than login
OtherRead ==
    {i \in 1..Len(minerIn) :
        DecodedOf[minerIn[i]].ok /\ DecodedOf[minerIn[i]].method /= "login"}

RelaysOf(idx) == {i \in 1..Len(upstream) : IsRelay(upstream[i]) /\ upstream[i].idx = idx}

\* C8 as stated: every well-formed non-login frame read is relayed upstream
\* exactly once, and the bytes written are the bytes read (followed by the
\* newline that delimits frames), whether the session is authenticated or not.
C8_RelayedOnceUnmodified ==
    \A f \in OtherRead :
       /\ Cardinality(RelaysOf(f)) = 1
       /\ \A i \in RelaysOf(f) : upstream[i].bytes = minerIn[f] \o <<NL>>

\* C8 as amended: every well-formed non-login frame read is relayed upstream
\* exactly once, as one newline-terminated line that decodes to the same
\* request, whether the session is authenticated or not; the bytes are those
\* read except that whitespace between tokens is gone and "<" is escaped.
C8_RelayedOnceSameValue ==
    \A f \in OtherRead :
       /\ Cardinality(RelaysOf(f)) = 1
       /\ \A i \in RelaysOf(f) :
             /\ DecodedOf[upstream[i].bytes] = DecodedOf[minerIn[f]]
             /\ upstream[i].bytes[Len(upstream[i].bytes)] = NL
             /\ Len(upstream[i].bytes) <= Len(minerIn[f]) + 1

\* C8 witness: two non-login frames have been relayed, one before and one
\* after authentication, one of them with bytes that differ from those read.
C8_Witness ==
    \E i, j \in 1..Len(upstream) :
       /\ IsRelay(upstream[i]) /\ upstream[i].verdict = "none" /\ ~upstream[i].auth
       /\ IsRelay(upstream[j]) /\ upstream[j].verdict = "none" /\ upstream[j].auth
       /\ upstream[i].bytes /= upstream[i].raw \o <<NL>>

\* C9: the frames relayed by the read loop appear on the upstream link in the
\* order in which they were read, whatever status requests lie between them.
C9_RelayOrderPreserved ==
    \A i, j \in 1..Len(upstream) :
       (i < j /\ IsRelay(upstream[i]) /\ IsRelay(upstream[j]))
          => upstream[i].idx < upstream[j].idx

\* C9 witness: two relayed frames with a heartbeat status request between them.
C9_Witness ==
    \E i, j, k \in 1..Len(upstream) :
       /\ i < j /\ j < k
       /\ IsRelay(upstream[i]) /\ IsStatus(upstream[j]) /\ IsRelay(upstream[k])

C11_WrongLoginStartsNothing ==
    [][(pc = "finish" /\ pc' /= pc /\ req.verdict = "wrongPassword")
         => /\ session'.agent = session.agent
            /\ hbRunning' = hbRunning]_vars

\* C12: after a read error that is not a peer reset the connection handler
\* does not terminate: it goes on to read the next frame, with the session and
\* the upstream relay handle unchanged.
C12_ReadErrorContinues ==
    [][(pc = "empty" /\ pc' /= pc)
         => /\ pc' = "read"
            /\ session' = session
            /\ ncOpen' = ncOpen
            /\ upstream' = upstream]_vars

\* the frames read that json.Unmarshal rejected
MalformedRead == {i \in 1..Len(minerIn) : ~DecodedOf[minerIn[i]].ok}

\* C13: a non-empty frame that fails to parse as a request is dropped: the step
\* that reads it relays nothing upstream, writes nothing to the miner, leaves
\* the session unchanged and stays in the read loop; no later step relays it or
\* answers it either.
C13_MalformedDropped ==
    [][/\ (Len(minerIn') = Len(minerIn) + 1 /\ ~DecodedOf[minerIn'[Len(minerIn')]].ok)
            => /\ upstream' = upstream
               /\ minerOut' = minerOut
               /\ session' = session
               /\ hbRunning' = hbRunning
               /\ dbCalls' = dbCalls
               /\ pc = "read" /\ pc' = "read"
       /\ \A f \in MalformedRead' :
             /\ RelaysOf(f)' = {}
             /\ \A i \in 1..Len(minerOut') : minerOut'[i] /= ErrorReply(f)]_vars

\* C13 witness: a malformed frame was read and a frame read after it has been
\* relayed upstream.
C13_Witness ==
    \E f \in MalformedRead : \E g \in OtherRead : f < g /\ RelaysOf(g) /= {}

\* C14: on every exit path of handleConn (peer reset, empty frame) the
\* teardown closes the upstream handle, cancels the scope and closes the miner
\* socket: each of the three happens in its own deferred call and nowhere
\* else, is the first of its kind on the connection, is never undone, and the
\* handler always gets through all three.
C14_TeardownOnce ==
    /\ [][/\ ncOpen' /= ncOpen => pc = "closeNc" /\ ncOpen /\ pc' = "cancel"
          /\ ctxDone' /= ctxDone => pc = "cancel" /\ ~ctxDone /\ pc' = "closeConn"
          /\ connOpen' /= connOpen => pc = "closeConn" /\ connOpen /\ pc' = "done"
          /\ pc = "done" => pc' = "done"]_vars
    /\ [](/\ pc = "closeNc" => ncOpen /\ ~ctxDone /\ connOpen
          /\ pc = "cancel" => ~ncOpen /\ ~ctxDone /\ connOpen
          /\ pc = "closeConn" => ~ncOpen /\ ctxDone /\ connOpen
          /\ pc = "done" => ~ncOpen /\ ctxDone /\ ~connOpen)
    /\ (pc \in {"empty", "closeNc"}) ~> (pc = "done")

\* C14 witness: the handler has left through the empty-frame check while a
\* heartbeat task was running and a pushed message was waiting, and has
\* finished its teardown.
C14_Witness ==
    /\ pc = "done" /\ ~ncOpen /\ ctxDone /\ ~connOpen
    /\ hbRunning > 0
    /\ cb /= NoMsg

\* C15: once the connection's scope is cancelled, every heartbeat task that
\* was started terminates, also when ticks arrive after the cancellation.
C15_HeartbeatTerminates == ctxDone ~> (hbRunning = 0)

\* C15 witness: a tick was taken after the teardown had cancelled the scope,
\* and the heartbeat task has terminated since.
C15_Witness ==
    /\ ctxDone
    /\ hbRunning = 0
    /\ \E i \in 1..Len(errLog) : errLog[i].src = "hb" /\ errLog[i].late

\* the pushed messages forwarded to the miner, and those that led to a
\* database call
Forwarded == {minerOut[i].id : i \in {j \in 1..Len(minerOut) : minerOut[j].kind = "push"}}
Classified == {dbCalls[i].by : i \in 1..Len(dbCalls)}

\* C16: the callback writes every pushed message to the miner socket, whatever
\* handleMethod makes of it (the write gets through whenever the socket is
\* open), and handleMethod runs whether or not that write succeeded: a submit
\* result without error is recorded, and a status result for a logged-in
\* session leads to its database call, also when the miner socket is closed.
C16_ForwardAndClassify ==
    [][/\ (cb /= NoMsg /\ cb.at = "fwd" /\ cb' /= cb)
            => /\ connOpen => minerOut' = Append(minerOut, [kind |-> "push", id |-> cb.id])
               /\ (cb.res.method = "submit" /\ ~cb.res.error /\ cb.res.kind = "str")
                     => cb'.at = "login"
               /\ (cb.res.method = "status" /\ ~hasNotLoggedIn(session))
                     => cb'.at = "login"
       /\ (cb.at = "agent" /\ cb' /= cb)
            => /\ cb' = NoMsg
               /\ Len(NewCalls) >= 1
               /\ \A i \in 1..Len(NewCalls) : NewCalls[i].by = cb.id]_vars

\* C16 witness: one pushed message was forwarded and led to no database call,
\* another could not be written to the miner and was recorded all the same.
C16_Witness ==
    /\ Forwarded \ Classified /= {}
    /\ Classified \ Forwarded /= {}

\* C17: setMinerAgentStatus is never called while the session is
\* unauthenticated, and every call of it carries a non-empty login and the
\* configured difficulty.
C17_StatusOnlyWithLogin ==
    [][\A i \in 1..Len(NewCalls) :
          NewCalls[i].op = "setMinerAgentStatus"
             => /\ ~hasNotLoggedIn(session)
                /\ NewCalls[i].login /= <<>>
                /\ NewCalls[i].diff = Diff]_vars

\* the (login, agent) pairs a single login request read so far can commit,
\* and the pair the session starts with
CommittedPairs ==
    {<<(<<>>), (<<>>)>>}
    \cup {<<LoginOf(minerIn[i], v), AgentOf(minerIn[i], r)>> :
             i \in {j \in 1..Len(minerIn) :
                       DecodedOf[minerIn[j]].ok /\ DecodedOf[minerIn[j]].method = "login"},
             v \in Verdicts, r \in Rands}

\* C18: the (login, agent) pair passed to putShare or setMinerAgentStatus is
\* the pair of one single login request, never the login of one request with
\* the agent of another, and never a non-empty login with an empty agent.
C18_ConsistentIdentity ==
    \A i \in 1..Len(dbCalls) :
       dbCalls[i].op \in {"putShare", "setMinerAgentStatus"}
          => /\ <<dbCalls[i].login, dbCalls[i].agent>> \in CommittedPairs
             /\ dbCalls[i].login /= <<>> => dbCalls[i].agent /= <<>>

\* C20: putShare and putBlockHash are called only while the session's login is
\* non-empty, and a recorded share always names the login it is credited to.
C20_SharesOnlyWithLogin ==
    [][\A i \in 1..Len(NewCalls) :
          /\ NewCalls[i].op \in {"putShare", "putBlockHash"} => ~hasNotLoggedIn(session)
          /\ NewCalls[i].op = "putShare" => NewCalls[i].login /= <<>>]_vars

\* the sockets AcceptTCP returned
Sockets == {i \in 1..Len(ln.results) : ln.results[i] = "sock"}

\* C19: an accept error neither ends the accept loop nor starts a handler:
\* there is one handler, with at most one session and one upstream client,
\* per accepted socket, and none for a failed accept.
C19_OneHandlerPerSocket ==
    /\ ln.state = "accepting"
    /\ Len(ln.handlers) = Cardinality(Sockets)
    /\ \A i \in 1..Len(ln.handlers) : ln.handlers[i].conn = "sock"

====
